---------------------------- MODULE Spec2Model ----------------------------
(***************************************************************************)
(* A model of the mpu helpers:                                             *)
(*   - generate_primes  (src/mpu/math.py), the incremental sieve, as a     *)
(*     state machine with one step per loop iteration and one per          *)
(*     suspension at the yield;                                            *)
(*   - factorize and is_prime (src/mpu/math.py), one step per loop         *)
(*     iteration, nested call and return, on arguments drawn from a        *)
(*     bounded set, with Python's unbounded ints and its float division;   *)
(*   - parallel_for (src/mpu/__init__.py), a map over a thread pool.       *)
(* Each part has its own specification; the variables of the other parts   *)
(* stay at their initial values.                                           *)
(***************************************************************************)
EXTENDS Integers, Sequences, FiniteSets, TLC

VARIABLES
    pc,          \* generate_primes: per instance, "loop" (line 43) or "yielded" (line 53)
    candidate,   \* generate_primes: per instance, the local candidate
    divisors,    \* generate_primes: per instance, the dict divisors (key -> list)
    emitted,     \* generate_primes: per instance, the values yielded so far, in order
    number,      \* the argument of the call of factorize or is_prime
    op,          \* the function called on it: "factorize" or "is_prime" ("none" before)
    fpc,         \* where the innermost call of factorize stands
    arg,         \* the parameter number of the innermost call of factorize
    i,           \* the loop variable i of the innermost call
    frames,      \* the suspended calls of factorize, innermost first
    ret,         \* how the call of factorize that ended last ended
    calls,       \* history: every ended call of factorize, argument -> outcome
    outcome,     \* how the call of op ended
    parameters,  \* parallel_for: the argument parameters
    pool,        \* parallel_for: the thread pool, "none", "open" or "closed"
    taskqueue,   \* the indices of the items no worker has taken yet, in order
    working,     \* per worker thread, the index of the item it works on (0: none)
    outqueue,    \* the results the workers have put, not yet stored
    value,       \* the list the results are stored in, by index
    stored,      \* history: the indices in the order their results were stored
    returned     \* how the call of parallel_for ended

primeVars == <<pc, candidate, divisors, emitted>>
factorVars == <<number, op, fpc, arg, i, frames, ret, calls, outcome>>
poolVars == <<parameters, pool, taskqueue, working, outqueue, value, stored, returned>>
vars == <<primeVars, factorVars, poolVars>>

(***************************************************************************)
(* Bounds of the model.                                                    *)
(***************************************************************************)
NumGens == 2         \* independent generate_primes() instances
MaxCandidate == 30   \* the sieve is stopped when candidate reaches this value
MaxNumber == 60      \* factorize is applied to every integer in -MaxNumber..MaxNumber
NbThreads == 3       \* nb_threads, the worker threads of the pool
MaxItems == 4        \* parallel_for is given at most this many parameters

Gens == 1..NumGens

(***************************************************************************)
(* Arithmetic used to state the properties (not part of the program).      *)
(***************************************************************************)
Divides(d, n) == n % d = 0

IsPrimeNat(n) == n >= 2 /\ \A d \in 2..(n - 1) : ~Divides(d, n)

IsCompositeNat(n) == n >= 2 /\ ~IsPrimeNat(n)

PrimesUpTo(n) == {p \in 2..n : IsPrimeNat(p)}

(***************************************************************************)
(* Python values.  An int is unbounded: it is kept as a sign and a         *)
(* magnitude, the magnitude a little-endian sequence of limbs in base      *)
(* LimbBase without leading zeros (zero is the empty sequence).  A float   *)
(* is an IEEE double: MantissaBits significant bits.                       *)
(***************************************************************************)
LimbBase == 2^15

MantissaBits == 53

RECURSIVE MagFromNat(_)
MagFromNat(n) ==
    IF n = 0 THEN <<>> ELSE <<n % LimbBase>> \o MagFromNat(n \div LimbBase)

\* Defined for magnitudes below 2^31 only.
RECURSIVE MagToNat(_)
MagToNat(m) ==
    IF m = <<>> THEN 0 ELSE Head(m) + LimbBase * MagToNat(Tail(m))

\* m divided by d, 1 <= d < LimbBase: quotient q and remainder r.
RECURSIVE MagDivMod(_, _)
MagDivMod(m, d) ==
    IF m = <<>> THEN [q |-> <<>>, r |-> 0]
    ELSE LET hi == MagDivMod(Tail(m), d)
             cur == hi.r * LimbBase + Head(m)
         IN  [q |-> IF hi.q = <<>> /\ cur \div d = 0 THEN <<>>
                    ELSE <<cur \div d>> \o hi.q,
              r |-> cur % d]

\* m * d + carry, 1 <= d < LimbBase.
RECURSIVE MagMulSmall(_, _, _)
MagMulSmall(m, d, carry) ==
    IF m = <<>> THEN MagFromNat(carry)
    ELSE LET t == Head(m) * d + carry
         IN  <<t % LimbBase>> \o MagMulSmall(Tail(m), d, t \div LimbBase)

\* m + k, 0 <= k < LimbBase.
RECURSIVE MagAddSmall(_, _)
MagAddSmall(m, k) ==
    IF k = 0 THEN m
    ELSE IF m = <<>> THEN <<k>>
    ELSE LET t == Head(m) + k
         IN  <<t % LimbBase>> \o MagAddSmall(Tail(m), t \div LimbBase)

\* a < b
RECURSIVE MagLess(_, _)
MagLess(a, b) ==
    IF Len(a) # Len(b) THEN Len(a) < Len(b)
    ELSE IF a = <<>> THEN FALSE
    ELSE LET n == Len(a)
         IN  IF a[n] # b[n] THEN a[n] < b[n]
             ELSE MagLess(SubSeq(a, 1, n - 1), SubSeq(b, 1, n - 1))

\* The number of bits of m (int.bit_length); a limb holds 15 bits.
BitLength(m) ==
    IF m = <<>> THEN 0
    ELSE LET top == m[Len(m)]
         IN  15 * (Len(m) - 1) + (CHOOSE k \in 1..15 : 2^(k - 1) <= top /\ top < 2^k)

\* m * 2^k
RECURSIVE ShiftLeft(_, _)
ShiftLeft(m, k) == IF k = 0 THEN m ELSE ShiftLeft(MagMulSmall(m, 2, 0), k - 1)

\* m shifted right by k bits, with the last bit shifted out (round) and
\* whether any bit shifted out before it was set (sticky).
RECURSIVE ShiftRight(_, _, _, _)
ShiftRight(m, k, round, sticky) ==
    IF k = 0 THEN [hi |-> m, round |-> round, sticky |-> sticky]
    ELSE LET h == MagDivMod(m, 2)
         IN  ShiftRight(h.q, k - 1, h.r = 1, sticky \/ round)

\* The double nearest to the integer m, ties to even: what int -> float and
\* the correctly rounded int / int of Python produce for an integral value.
RoundToDouble(m) ==
    IF BitLength(m) <= MantissaBits THEN m
    ELSE LET k == BitLength(m) - MantissaBits
             s == ShiftRight(m, k, FALSE, FALSE)
             up == s.round /\ (s.sticky \/ MagDivMod(s.hi, 2).r = 1)
         IN  ShiftLeft(IF up THEN MagAddSmall(s.hi, 1) ELSE s.hi, k)

PyInt(neg, mag) == [type |-> "int", neg |-> neg, mag |-> mag]

\* The Python int of a small integer of the model.
IntOf(n) == IF n < 0 THEN PyInt(TRUE, MagFromNat(-n)) ELSE PyInt(FALSE, MagFromNat(n))

\* The value of number in the specifications that call neither function.
NoInt == IntOf(0)

\* A value that is not an int (a float such as 2.5).
NotAnInt == [type |-> "float", neg |-> FALSE, mag |-> <<>>]

\* isinstance(number, int)
IsInstanceInt(x) == x.type = "int"

\* number * (-1), for number # 0
Negate(x) == PyInt(~x.neg, x.mag)

(***************************************************************************)
(* factorize and is_prime                                                  *)
(***************************************************************************)

\* How a call ends: it returns a value or raises ValueError with a message.
Return(v) == [kind |-> "return", value |-> v, error |-> ""]

Raise(e) == [kind |-> "raise", value |-> <<>>, error |-> e]

NotEnded == [kind |-> "none", value |-> <<>>, error |-> ""]

\* The variables of factorize in the specifications that do not call it.
IdleFactorize ==
    /\ number = NoInt /\ op = "none" /\ fpc = "idle" /\ arg = NoInt /\ i = 0
    /\ frames = <<>> /\ ret = NotEnded /\ calls = <<>> /\ outcome = NotEnded

\* The variables of generate_primes in the specifications that do not run it.
IdlePrimes ==
    /\ pc = [g \in 1..NumGens |-> "loop"]
    /\ candidate = [g \in 1..NumGens |-> 2]
    /\ divisors = [g \in 1..NumGens |-> <<>>]
    /\ emitted = [g \in 1..NumGens |-> <<>>]

\* A list slot not assigned yet.
None == "None"

\* The variables of parallel_for in the specifications that do not call it.
IdlePool ==
    /\ parameters = <<>> /\ pool = "none" /\ taskqueue = <<>>
    /\ working = [w \in 1..NbThreads |-> 0]
    /\ outqueue = <<>> /\ value = <<>> /\ stored = <<>> /\ returned = NotEnded

(***************************************************************************)
(* generate_primes                                                         *)
(***************************************************************************)

\* The dict `divisors` is a function from its keys to lists of witnesses.
EmptyDict == <<>>

HasKey(d, k) == k \in DOMAIN d

\* d[k] = v
SetItem(d, k, v) == [x \in (DOMAIN d) \cup {k} |-> IF x = k THEN v ELSE d[x]]

\* A del that removes nothing.
DelItemKeeps(d, k) == d

\* del d[k]
DelItem(d, k) == [x \in (DOMAIN d) \ {k} |-> d[x]]

\* d.setdefault(k, []).append(p)
SetDefaultAppend(d, k, p) ==
    IF HasKey(d, k) THEN SetItem(d, k, Append(d[k], p))
                    ELSE SetItem(d, k, <<p>>)

\* A witness moved to the next integer instead of its next multiple.
NextMultipleOffByOne(p, c) == c + 1

\* The next multiple a witness p of candidate c is moved to (line 49).
NextMultiple(p, c) == p + c

\* for p in divisors[candidate]: divisors.setdefault(p + candidate, []).append(p)
RECURSIVE Reregister(_, _, _)
Reregister(d, ps, c) ==
    IF ps = <<>> THEN d
    ELSE Reregister(SetDefaultAppend(d, NextMultiple(Head(ps), c), Head(ps)),
                    Tail(ps), c)

\* A composite branch that forgets to move the witnesses on.
CompositeBranchNoReregister(d, c) == DelItem(d, c)

\* The whole composite branch, lines 48-50.
CompositeBranch(d, c) == DelItem(Reregister(d, d[c], c), c)

\* A new prime registered at its cube instead of its square.
FirstMultipleCubed(c) == c * c * c

\* The first multiple a new prime c is registered at (line 57).
FirstMultiple(c) == c * c

\* Lines 38-40 have run: an empty dict and candidate = 2, at the loop head.
InitPrimes ==
    /\ pc = [g \in Gens |-> "loop"]
    /\ candidate = [g \in Gens |-> 2]
    /\ divisors = [g \in Gens |-> EmptyDict]
    /\ emitted = [g \in Gens |-> <<>>]
    /\ IdleFactorize /\ IdlePool

\* Lines 43-50 and 59: candidate is a key, so it is composite.
Composite(g) ==
    /\ pc[g] = "loop"
    /\ candidate[g] < MaxCandidate
    /\ HasKey(divisors[g], candidate[g])
    /\ divisors' = [divisors EXCEPT ![g] = CompositeBranch(@, candidate[g])]
    /\ candidate' = [candidate EXCEPT ![g] = @ + 1]
    /\ UNCHANGED <<pc, emitted, factorVars, poolVars>>

\* Lines 43, 51-53: candidate is not a key; it is yielded and the generator
\* is suspended at the yield.
Yield(g) ==
    /\ pc[g] = "loop"
    /\ candidate[g] < MaxCandidate
    /\ ~HasKey(divisors[g], candidate[g])
    /\ emitted' = [emitted EXCEPT ![g] = Append(@, candidate[g])]
    /\ pc' = [pc EXCEPT ![g] = "yielded"]
    /\ UNCHANGED <<candidate, divisors, factorVars, poolVars>>

\* Lines 57 and 59: the next pull resumes after the yield.
Resume(g) ==
    /\ pc[g] = "yielded"
    /\ divisors' = [divisors EXCEPT
                      ![g] = SetItem(@, FirstMultiple(candidate[g]), <<candidate[g]>>)]
    /\ candidate' = [candidate EXCEPT ![g] = @ + 1]
    /\ pc' = [pc EXCEPT ![g] = "loop"]
    /\ UNCHANGED <<emitted, factorVars, poolVars>>

NextPrimes == \E g \in Gens : Composite(g) \/ Yield(g) \/ Resume(g)

SpecPrimes == InitPrimes /\ [][NextPrimes]_vars

(***************************************************************************)
(* factorize and is_prime.  factorize is recursive: the calls that wait for *)
(* a nested call are kept in frames, each with its argument and the        *)
(* element it will put in front of the nested call's list.  One action is  *)
(* one pass through the head of the function (lines 85-92), one iteration  *)
(* of the loop (lines 93-98) or one return.                                *)
(***************************************************************************)

\* Line 86.
IntegerExpected == "integer expected"

\* Line 91.
ZeroHasAllPrimes == "All primes are prime factors of 0."

\* 2^k as a magnitude (15 bits to a limb).
Pow2(k) == [j \in 1..(k \div 15) |-> 0] \o <<2^(k % 15)>>

\* Integers beyond the 53 bits of a double, and one large integer whose
\* quotients a double still holds.
LargeNumbers ==
    { PyInt(FALSE, MagAddSmall(Pow2(54), 2)),
      PyInt(FALSE, MagMulSmall(MagAddSmall(Pow2(53), 1), 3, 0)),
      PyInt(TRUE, MagAddSmall(Pow2(54), 2)),
      PyInt(FALSE, MagMulSmall(Pow2(40), 45, 0)) }

Numbers == {IntOf(n) : n \in (-MaxNumber)..MaxNumber} \cup LargeNumbers \cup {NotAnInt}

InitFactorize ==
    /\ number \in Numbers
    /\ op = "none" /\ fpc = "idle" /\ arg = NoInt /\ i = 0
    /\ frames = <<>> /\ ret = NotEnded /\ calls = <<>> /\ outcome = NotEnded
    /\ IdlePrimes /\ IdlePool

\* A caller calls factorize(number).
CallFactorize ==
    /\ fpc = "idle"
    /\ op' = "factorize" /\ arg' = number /\ fpc' = "enter"
    /\ UNCHANGED <<number, i, frames, ret, calls, outcome, primeVars, poolVars>>

\* A caller calls is_prime(number), which calls factorize(number) (line 123).
CallIsPrime ==
    /\ fpc = "idle"
    /\ op' = "is_prime" /\ arg' = number /\ fpc' = "enter"
    /\ UNCHANGED <<number, i, frames, ret, calls, outcome, primeVars, poolVars>>

\* Lines 85-87: the argument is not an int.
RaiseIntegerExpected ==
    /\ fpc = "enter" /\ ~IsInstanceInt(arg)
    /\ ret' = Raise(IntegerExpected) /\ fpc' = "return"
    /\ UNCHANGED <<number, op, arg, i, frames, calls, outcome, primeVars, poolVars>>

\* The frame of a call waiting at line 89 for factorize(number * (-1)).
SignFrame(x) == [arg |-> x, elem |-> -1]

\* The frame of a call waiting at line 98 for factorize(int(number / i)).
FactorFrame(x, d) == [arg |-> x, elem |-> d]

\* Lines 88-89: a negative argument; factorize(number * (-1)) is called.
EnterNegative ==
    /\ fpc = "enter" /\ IsInstanceInt(arg) /\ arg.neg
    /\ frames' = <<SignFrame(arg)>> \o frames
    /\ arg' = Negate(arg)
    /\ UNCHANGED <<number, op, fpc, i, ret, calls, outcome, primeVars, poolVars>>

\* Lines 90-91: the argument is zero.
RaiseZero ==
    /\ fpc = "enter" /\ IsInstanceInt(arg) /\ ~arg.neg /\ arg.mag = <<>>
    /\ ret' = Raise(ZeroHasAllPrimes) /\ fpc' = "return"
    /\ UNCHANGED <<number, op, arg, i, frames, calls, outcome, primeVars, poolVars>>

\* Lines 92-93: a positive argument; the loop starts at i = 2.
StartLoop ==
    /\ fpc = "enter" /\ IsInstanceInt(arg) /\ ~arg.neg /\ arg.mag # <<>>
    /\ i' = 2 /\ fpc' = "loop"
    /\ UNCHANGED <<number, op, arg, frames, ret, calls, outcome, primeVars, poolVars>>

\* i in range(2, int(math.ceil(number ** 0.5)) + 1), for i >= 2: i is at most
\* the ceiling of the square root, that is (i - 1)^2 < number.  For number
\* below 2^52 the float square root gives exactly this ceiling; above, the
\* rounded square root can miss it by one, which adds or drops only a last
\* trial divisor above the square root, never the first one to divide number.
InTrialRange(d, m) == MagLess(MagFromNat((d - 1) * (d - 1)), m)

\* number % i == 0 (line 94)
DividesNumber(d, m) == MagDivMod(m, d).r = 0

\* int(number / i) at line 98, where i divides number: the exact quotient,
\* rounded to a double by the true division and converted back.
IntOfTrueDiv(m, d) == RoundToDouble(MagDivMod(m, d).q)

\* The list returned at line 99 holds number itself; the model keeps the
\* elements of the lists as plain integers.
ListOfNumber(m) == <<MagToNat(m)>>

\* Line 99: the range is exhausted and no i divided number.
LoopEnds ==
    /\ fpc = "loop" /\ ~InTrialRange(i, arg.mag)
    /\ ret' = Return(ListOfNumber(arg.mag)) /\ fpc' = "return"
    /\ UNCHANGED <<number, op, arg, i, frames, calls, outcome, primeVars, poolVars>>

\* Lines 93-94: i does not divide number; the next i.
LoopNext ==
    /\ fpc = "loop" /\ InTrialRange(i, arg.mag) /\ ~DividesNumber(i, arg.mag)
    /\ i' = i + 1
    /\ UNCHANGED <<number, op, fpc, arg, frames, ret, calls, outcome, primeVars, poolVars>>

\* Lines 94-96: i divides number and is number.
FoundItself ==
    /\ fpc = "loop" /\ InTrialRange(i, arg.mag) /\ DividesNumber(i, arg.mag)
    /\ MagFromNat(i) = arg.mag
    /\ ret' = Return(<<i>>) /\ fpc' = "return"
    /\ UNCHANGED <<number, op, arg, i, frames, calls, outcome, primeVars, poolVars>>

\* Lines 94, 97-98: i divides number; factorize(int(number / i)) is called.
FoundFactor ==
    /\ fpc = "loop" /\ InTrialRange(i, arg.mag) /\ DividesNumber(i, arg.mag)
    /\ MagFromNat(i) # arg.mag
    /\ frames' = <<FactorFrame(arg, i)>> \o frames
    /\ arg' = PyInt(FALSE, IntOfTrueDiv(arg.mag, i))
    /\ fpc' = "enter"
    /\ UNCHANGED <<number, op, i, ret, calls, outcome, primeVars, poolVars>>

\* The element put behind the nested call's list instead of in front of it.
ConcatBehind(elem, out) ==
    IF out.kind = "raise" THEN out ELSE Return(out.value \o <<elem>>)

\* [-1] + factorize(...) at line 89 and [i] + factorize(...) at line 98; an
\* exception of the nested call passes through.
ConcatInFront(elem, out) ==
    IF out.kind = "raise" THEN out ELSE Return(<<elem>> \o out.value)

\* The history with the call factorize(x) ended as out.
Ended(h, x, out) == [y \in (DOMAIN h) \cup {x} |-> IF y = x THEN out ELSE h[y]]

\* A nested call of factorize ends: its caller resumes at line 89 or 98 and
\* ends in turn.
ReturnToCaller ==
    /\ fpc = "return" /\ frames # <<>>
    /\ calls' = Ended(calls, arg, ret)
    /\ ret' = ConcatInFront(Head(frames).elem, ret)
    /\ arg' = Head(frames).arg
    /\ i' = IF Head(frames).elem = -1 THEN i ELSE Head(frames).elem
    /\ frames' = Tail(frames)
    /\ UNCHANGED <<number, op, fpc, outcome, primeVars, poolVars>>

\* An is_prime that answers False when factorize raises.
IsPrimeSwallowing(out) ==
    IF out.kind = "raise" THEN Return(FALSE) ELSE Return(Len(out.value) = 1)

\* len(factorize(number)) == 1 (line 123); an exception of factorize passes
\* through is_prime.
IsPrimeOutcome(out) ==
    IF out.kind = "raise" THEN out ELSE Return(Len(out.value) = 1)

\* The outermost call of factorize ends: factorize(number) has ended, or
\* is_prime(number) ends with the length test of line 123.
Finish ==
    /\ fpc = "return" /\ frames = <<>>
    /\ calls' = Ended(calls, arg, ret)
    /\ outcome' = IF op = "is_prime" THEN IsPrimeOutcome(ret) ELSE ret
    /\ fpc' = "done"
    /\ UNCHANGED <<number, op, arg, i, frames, ret, primeVars, poolVars>>

NextFactorize ==
    \/ CallFactorize \/ CallIsPrime
    \/ RaiseIntegerExpected \/ EnterNegative \/ RaiseZero \/ StartLoop
    \/ LoopEnds \/ LoopNext \/ FoundItself \/ FoundFactor
    \/ ReturnToCaller \/ Finish

SpecFactorize == InitFactorize /\ [][NextFactorize]_vars

(***************************************************************************)
(* parallel_for: pool.map(loop_function, parameters) on a ThreadPool of    *)
(* nb_threads workers.  map puts one task per item on the task queue (its  *)
(* chunks hold one item up to 4 * nb_threads items), each worker thread    *)
(* takes a task, applies loop_function and puts the result with the item's *)
(* index on the result queue; the pool stores each result at its index and *)
(* map returns the list when none is left.                                 *)
(***************************************************************************)
Workers == 1..NbThreads

\* looping_function of test_parallel_for: the payload (i, j) gives i + j.
loop_function(payload) == payload[1] + payload[2]

\* The parameters of test_parallel_for, for n items: (i, i + 1) for i in range(n).
Parameters(n) == [k \in 1..n |-> <<k - 1, k>>]

InitPool ==
    /\ parameters \in {Parameters(n) : n \in 0..MaxItems}
    /\ pool = "none" /\ taskqueue = <<>>
    /\ working = [w \in Workers |-> 0]
    /\ outqueue = <<>> /\ value = <<>> /\ stored = <<>> /\ returned = NotEnded
    /\ IdlePrimes /\ IdleFactorize

\* Lines 34-35: the pool is created and map queues one task per item.
CallParallelFor ==
    /\ pool = "none"
    /\ pool' = "open"
    /\ taskqueue' = [k \in 1..Len(parameters) |-> k]
    /\ value' = [k \in 1..Len(parameters) |-> None]
    /\ UNCHANGED <<parameters, working, outqueue, stored, returned, primeVars, factorVars>>

\* An idle worker thread takes the next task.
WorkerTakes(w) ==
    /\ pool = "open" /\ working[w] = 0 /\ taskqueue # <<>>
    /\ working' = [working EXCEPT ![w] = Head(taskqueue)]
    /\ taskqueue' = Tail(taskqueue)
    /\ UNCHANGED <<parameters, pool, outqueue, value, stored, returned, primeVars, factorVars>>

\* The items whose result is stored or queued.
Finished == Len(parameters) - Len(taskqueue) - Cardinality({w \in Workers : working[w] # 0})

\* A result queued under the rank at which it was finished, not the index of
\* its item.
ResultInCompletionOrder(k) ==
    [index |-> Finished + 1, result |-> loop_function(parameters[k])]

\* The result of item k, queued with its index.
Result(k) == [index |-> k, result |-> loop_function(parameters[k])]

\* A worker thread ends loop_function on its item and queues the result.
WorkerFinishes(w) ==
    /\ pool = "open" /\ working[w] # 0
    /\ outqueue' = Append(outqueue, Result(working[w]))
    /\ working' = [working EXCEPT ![w] = 0]
    /\ UNCHANGED <<parameters, pool, taskqueue, value, stored, returned, primeVars, factorVars>>

\* The pool stores the next queued result at its index.
StoreResult ==
    /\ pool = "open" /\ outqueue # <<>>
    /\ value' = [value EXCEPT ![Head(outqueue).index] = Head(outqueue).result]
    /\ stored' = Append(stored, Head(outqueue).index)
    /\ outqueue' = Tail(outqueue)
    /\ UNCHANGED <<parameters, pool, taskqueue, working, returned, primeVars, factorVars>>

\* The results map still waits for.
NumberLeft == Len(parameters) - Finished + Len(outqueue)

\* Line 35: map returns the list once no result is left, and closing()
\* closes the pool.
ReturnList ==
    /\ pool = "open" /\ NumberLeft = 0
    /\ returned' = Return(value)
    /\ pool' = "closed"
    /\ UNCHANGED <<parameters, taskqueue, working, outqueue, value, stored, primeVars, factorVars>>

NextPool ==
    \/ CallParallelFor
    \/ \E w \in Workers : WorkerTakes(w) \/ WorkerFinishes(w)
    \/ StoreResult
    \/ ReturnList

SpecPool == InitPool /\ [][NextPool]_vars

(***************************************************************************)
(* Properties of generate_primes.                                          *)
(***************************************************************************)

\* The k-th prime number, by definition: the prime with k primes up to it.
NthPrime(k) ==
    CHOOSE p \in 2..(MaxCandidate + 1) :
        IsPrimeNat(p) /\ Cardinality(PrimesUpTo(p)) = k

IsPrefix(s, t) == Len(s) <= Len(t) /\ \A k \in 1..Len(s) : s[k] = t[k]

\* C1: the k-th value pulled from every generate_primes() instance is the
\* k-th prime number (so the values increase strictly, no composite is
\* emitted and no prime is skipped), whatever the interleaving of the pulls
\* from the instances; two instances yield the same sequence as far as both
\* have been pulled.
C1_KthValueIsKthPrime ==
    /\ \A g \in Gens : \A k \in 1..Len(emitted[g]) : emitted[g][k] = NthPrime(k)
    /\ \A g \in Gens : \A k \in 1..(Len(emitted[g]) - 1) :
           emitted[g][k] < emitted[g][k + 1]
    /\ \A g, h \in Gens :
           IsPrefix(emitted[g], emitted[h]) \/ IsPrefix(emitted[h], emitted[g])

\* One instance has been pulled ten times and the other only four times.
C1_Witness ==
    /\ emitted[1] = <<2, 3, 5, 7, 11, 13, 17, 19, 23, 29>>
    /\ Len(emitted[2]) = 4

\* C8: whenever the loop examines candidate (line 43), divisors has the key
\* candidate if and only if candidate is composite.
C8_KeyIffComposite ==
    \A g \in Gens :
        pc[g] = "loop" =>
            (HasKey(divisors[g], candidate[g]) <=> IsCompositeNat(candidate[g]))

\* The loop examines 25, first registered as the square of 5, and it is a key;
\* the other instance examines the prime 23, which is not.
C8_Witness ==
    /\ pc[1] = "loop" /\ candidate[1] = 25 /\ HasKey(divisors[1], 25)
    /\ pc[2] = "loop" /\ candidate[2] = 23 /\ ~HasKey(divisors[2], 23)

\* The emitted primes whose square is at most candidate.
SquareReached(g) ==
    {k \in 1..Len(emitted[g]) : emitted[g][k] * emitted[g][k] <= candidate[g]}

SeqToSet(s) == {s[k] : k \in 1..Len(s)}

\* The keys under which p is listed.
KeysListing(d, p) == {k \in DOMAIN d : p \in SeqToSet(d[k])}

\* C10: whenever the loop examines candidate c, every key is at least c,
\* every witness listed under a key is an emitted prime dividing the key, and
\* every emitted prime is listed under exactly one key.
C10_WitnessInvariant ==
    \A g \in Gens :
        pc[g] = "loop" =>
            /\ \A k \in DOMAIN divisors[g] : k >= candidate[g]
            /\ \A k \in DOMAIN divisors[g] : \A p \in SeqToSet(divisors[g][k]) :
                   p \in SeqToSet(emitted[g]) /\ Divides(p, k)
            /\ \A p \in SeqToSet(emitted[g]) :
                   Cardinality(KeysListing(divisors[g], p)) = 1

\* The loop examines 12, under which both 2 and 3 are listed, while the
\* squares of 5, 7 and 11 wait.
C10_Witness ==
    \E g \in Gens :
        /\ pc[g] = "loop" /\ candidate[g] = 12
        /\ SeqToSet(divisors[g][12]) = {2, 3}
        /\ DOMAIN divisors[g] = {12, 25, 49, 121}

(***************************************************************************)
(* Properties of factorize and is_prime.                                   *)
(***************************************************************************)

\* The call of f on number has ended.
DoneWith(f) == fpc = "done" /\ op = f

AbsValue(n) == IF n < 0 THEN -n ELSE n

\* The magnitude of the product of a list of small integers.
RECURSIVE ProductMag(_)
ProductMag(list) ==
    IF list = <<>> THEN <<1>>
    ELSE MagMulSmall(ProductMag(Tail(list)), AbsValue(Head(list)), 0)

\* The product of a list of small nonzero integers, as a Python int.
Product(list) ==
    PyInt(Cardinality({k \in 1..Len(list) : list[k] < 0}) % 2 = 1, ProductMag(list))

\* |x| >= 2
AbsAtLeastTwo(x) == MagLess(<<1>>, x.mag)

\* x is a positive int small enough to be a plain integer of the model.
IsSmallPositive(x) == IsInstanceInt(x) /\ ~x.neg /\ x.mag # <<>> /\ Len(x.mag) <= 2

\* C2: for every integer n with |n| >= 2, factorize(n) returns a list whose
\* product is n.
C2_ProductIsNumber ==
    (DoneWith("factorize") /\ IsInstanceInt(number) /\ AbsAtLeastTwo(number)) =>
        /\ outcome.kind = "return"
        /\ Product(outcome.value) = number

\* C3: for every nonzero integer n, is_prime(n) is true exactly when
\* factorize(n) has one element and n is neither -1 nor 1: false for 1 and
\* for every negative n, and for n >= 2 true exactly when n is prime.
C3_IsPrimeIffOneFactorAndNotUnit ==
    (DoneWith("is_prime") /\ IsInstanceInt(number) /\ number.mag # <<>>) =>
        /\ outcome.kind = "return"
        /\ outcome.value = (/\ Len(calls[number].value) = 1
                            /\ number \notin {IntOf(-1), IntOf(1)})
        /\ (number.neg \/ number = IntOf(1)) => outcome.value = FALSE
        /\ (IsSmallPositive(number) /\ AbsAtLeastTwo(number)) =>
               outcome.value = IsPrimeNat(MagToNat(number.mag))

\* C4: factorize(0) raises the zero error and returns no list, and
\* is_prime(0) ends with the same error instead of a boolean.
C4_ZeroRaises ==
    (fpc = "done" /\ number = IntOf(0)) =>
        outcome.kind = "raise" /\ outcome.error = ZeroHasAllPrimes

\* is_prime(0) has ended.
C4_Witness ==
    /\ DoneWith("is_prime") /\ number = IntOf(0)
    /\ outcome.kind = "raise" /\ calls[number].kind = "raise"

\* C5: for every integer n >= 2, every element of factorize(n) is prime and
\* the elements are in non-decreasing order.
C5_PrimeFactorsAscending ==
    (DoneWith("factorize") /\ IsInstanceInt(number) /\ ~number.neg
        /\ AbsAtLeastTwo(number)) =>
        /\ outcome.kind = "return"
        /\ \A k \in 1..Len(outcome.value) : IsPrimeNat(outcome.value[k])
        /\ \A k \in 1..(Len(outcome.value) - 1) :
               outcome.value[k] <= outcome.value[k + 1]

Elements(list) == {list[k] : k \in 1..Len(list)}

\* C6: for every nonzero integer n, -1 is an element of factorize(n) exactly
\* when n < 0, and then it is the first element only, followed by the list
\* the call factorize(-n) returned; 1 is an element exactly when |n| = 1:
\* factorize(1) == [1] and factorize(-1) == [-1, 1].
C6_SignAndUnityMarkers ==
    (DoneWith("factorize") /\ IsInstanceInt(number) /\ number.mag # <<>>) =>
        /\ outcome.kind = "return"
        /\ (-1 \in Elements(outcome.value)) <=> number.neg
        /\ number.neg =>
               /\ Head(outcome.value) = -1
               /\ -1 \notin Elements(Tail(outcome.value))
               /\ Negate(number) \in DOMAIN calls
               /\ Tail(outcome.value) = calls[Negate(number)].value
        /\ (1 \in Elements(outcome.value)) <=> (number.mag = <<1>>)
        /\ number = IntOf(1) => outcome.value = <<1>>
        /\ number = IntOf(-1) => outcome.value = <<-1, 1>>

\* factorize(-12) has returned [-1, 2, 2, 3].
C6_Witness ==
    /\ DoneWith("factorize") /\ number = IntOf(-12)
    /\ outcome = Return(<<-1, 2, 2, 3>>)
    /\ calls[IntOf(12)] = Return(<<2, 2, 3>>)

(***************************************************************************)
(* Properties of parallel_for.                                             *)
(***************************************************************************)

\* C7: parallel_for(loop_function, parameters) returns a list as long as
\* parameters whose i-th element is loop_function(parameters[i]), in
\* whatever order the worker threads take and finish the items.
C7_ResultsInParameterOrder ==
    pool = "closed" =>
        /\ returned.kind = "return"
        /\ Len(returned.value) = Len(parameters)
        /\ \A k \in 1..Len(parameters) :
               returned.value[k] = loop_function(parameters[k])

\* The list has been returned although a later item was finished and stored
\* before an earlier one.
C7_Witness ==
    /\ pool = "closed"
    /\ stored = <<3, 1, 4, 2>>
    /\ returned.value = <<1, 3, 5, 7>>

=============================================================================
